---------------------------- MODULE Spec2Model ----------------------------
(***************************************************************************)
(* Model of the two command-line wizards of the cpgrams repository:        *)
(*   FormFieldMapping/main.py   maps form fields to a form                 *)
(*   category_manager/main.py   builds a category tree depth-first         *)
(* Text the programs read character by character (field names, typed       *)
(* lines, category names) is a sequence of one-character strings.          *)
(***************************************************************************)
EXTENDS Integers, Sequences, FiniteSets, TLC

VARIABLES
    \* ---- FormFieldMapping/main.py: main() and the database it talks to
    pc,               \* the prompt or step main() is at
    form_id,          \* main(): form_id
    num_fields,       \* main(): num_fields
    input_mode,       \* main(): input_mode
    field_inputs,     \* main(): field_inputs
    resolved_fields,  \* main(): resolved_fields
    index,            \* insert_mappings(): index of enumerate(..., start=1)
    inserted,         \* value returned by insert_mappings(): "none", "true", "false"
    msg,              \* the last status line the wizard printed
    mapping,          \* committed rows of the form-field mapping table
    txn,              \* rows inserted by the open transaction of conn
    \* ---- normalize_field_name applied to an arbitrary input
    norm_in,          \* the argument
    norm_out,         \* the returned value
    norm_pc,          \* "input" before the call, "done" after
    \* ---- category_manager/main.py: main(), DatabaseConnection and its database
    cpc,              \* the prompt or step main() is at
    entity_id,        \* main(): entity_id
    stack,            \* activations of process_subcategories_depth_first, innermost first
    confirm,          \* answer to "Commit all changes to database?": "none", "yes", "no"
    cat_table,        \* committed rows of the category table
    cat_txn,          \* rows inserted by the open transaction of db.connection
    cat_next_id,      \* the next id the category table generates
    statements,       \* number of SQL statements db.cursor has executed
    transcript,       \* the prompts answered and the inserts reported, in order
    \* ---- DatabaseConnection.bulk_insert_categories applied to an arbitrary list
    bulk_in,          \* the categories argument
    bulk_parent,      \* the parent_category_id argument
    bulk_ret,         \* the returned list
    bulk_pc           \* "input" before the call, "done" after

mapVars  == <<pc, form_id, num_fields, input_mode, field_inputs, resolved_fields,
              index, inserted, msg, mapping, txn>>
normVars == <<norm_in, norm_out, norm_pc>>
catVars  == <<cpc, entity_id, stack, confirm, cat_table, cat_txn, cat_next_id,
              statements, transcript>>
bulkVars == <<bulk_in, bulk_parent, bulk_ret, bulk_pc>>
vars     == <<mapVars, normVars, catVars, bulkVars>>

\* what a step of one program leaves alone: the state of the others
notMap  == <<normVars, catVars, bulkVars>>
notNorm == <<mapVars, catVars, bulkVars>>
notCat  == <<mapVars, normVars, bulkVars>>
notBulk == <<mapVars, normVars, catVars>>

---------------------------------------------------------------------------
(* Bounds of the model *)

\* longest string handed to normalize_field_name
MaxLen == 3
\* most lines typed at one bulk prompt of the mapping wizard
MaxFields == 2
\* capacity of the mapping table: an INSERT into a full table fails
MaxRows == 2
\* most names pasted at one prompt of the category wizard
MaxCount == 2
\* capacity of the category table: an INSERT that would exceed it fails
MaxCats == 4

---------------------------------------------------------------------------
(* Generic helpers *)

\* the elements of s at the positions in keep, in their order in s
FilterIdx(s, keep) ==
    LET F[i \in 0..Len(s)] ==
            IF i = 0 THEN <<>>
            ELSE IF i \in keep THEN Append(F[i - 1], s[i]) ELSE F[i - 1]
    IN  F[Len(s)]

\* all sequences over S of length lo..hi
SeqsOf(S, lo, hi) == UNION {[1..n -> S] : n \in lo..hi}

---------------------------------------------------------------------------
(* normalize_field_name *)

\* Python's None
None == <<"<None>">>

\* characters of the model: an upper/lower-case pair, a digit, the seven
\* punctuation characters of the regular expression, and two whitespace characters
Alphabet == {"A", "a", "1", "/", "-", "_", "(", ")", ".", ",", " ", "\t"}

\* characters str.strip() and the class \s treat as whitespace
Whitespace == {" ", "\t"}

\* the class with the underscore forgotten
RegexClassNoUnderscore == {"/", "-", "(", ")", ".", ","} \cup Whitespace

\* characters of the class [/\-_().,\s]
RegexClass == {"/", "-", "_", "(", ")", ".", ","} \cup Whitespace

\* str.lower() on one character
LowerChar(c) == IF c = "A" THEN "a" ELSE c

\* str.lower()
Lower(s) == [i \in 1..Len(s) |-> LowerChar(s[i])]

\* str.strip(): drop leading and trailing whitespace
Strip(s) ==
    LET inner == {i \in 1..Len(s) : s[i] \notin Whitespace}
    IN  IF inner = {} THEN <<>>
        ELSE LET lo == CHOOSE i \in inner : \A j \in inner : i <= j
                 hi == CHOOSE i \in inner : \A j \in inner : j <= i
             IN  SubSeq(s, lo, hi)

\* re.sub(r'[...]', '', s): delete every character of the class
ReSubClass(class, s) == FilterIdx(s, {i \in 1..Len(s) : s[i] \notin class})

normalize_field_name(name) ==
    IF name = None \/ name = <<>> THEN <<>>
    ELSE ReSubClass(RegexClass, Strip(Lower(name)))

---------------------------------------------------------------------------
(* FormFieldMapping: the database *)

\* rows of the forms table (ids)
FormsTable == {"F1", "F2"}

\* rows of the form_fields table, in the order SELECT returns them
FormFieldsTable ==
    << [id |-> <<"f", "1">>, field_name |-> <<"A", "_", "1">>],
       [id |-> <<"f", "2">>, field_name |-> <<"1", ".", "a">>] >>

\* the value of "no row" / Python's None for a field
NoField == [id |-> <<>>, field_name |-> <<>>]

\* conn.commit(): the open transaction's rows become table rows
ConnCommit(table, pending) == table \o pending

\* validate_form_exists; dberr: the SELECT raises
validate_form_exists(f, dberr) == IF dberr THEN FALSE ELSE f \in FormsTable

\* get_field_by_id; dberr: the SELECT raises
get_field_by_id(field_id, dberr) ==
    IF dberr THEN NoField
    ELSE LET hit == {i \in 1..Len(FormFieldsTable) : FormFieldsTable[i].id = field_id}
         IN  IF hit = {} THEN NoField ELSE FormFieldsTable[CHOOSE i \in hit : TRUE]

\* get_all_fields; dberr: the SELECT raises
get_all_fields(dberr) ==
    IF dberr THEN <<>>
    ELSE [i \in 1..Len(FormFieldsTable) |->
            [id |-> FormFieldsTable[i].id,
             field_name |-> FormFieldsTable[i].field_name,
             normalized_name |-> normalize_field_name(FormFieldsTable[i].field_name)]]

\* resolve_field_by_name: the first field whose normalized name matches
resolve_field_by_name(all_fields, input_name) ==
    LET normalized_input == normalize_field_name(input_name)
        hit == {i \in 1..Len(all_fields) :
                    all_fields[i].normalized_name = normalized_input}
    IN  IF hit = {} THEN NoField
        ELSE LET first == CHOOSE i \in hit : \A j \in hit : i <= j
             IN  [id |-> all_fields[first].id,
                  field_name |-> all_fields[first].field_name]

\* check_existing_mapping; visible: the rows the connection sees; dberr: the SELECT raises
check_existing_mapping(visible, f, field_id, dberr) ==
    IF dberr THEN FALSE
    ELSE \E i \in 1..Len(visible) :
            visible[i].form_id = f /\ visible[i].field_id = field_id

---------------------------------------------------------------------------
(* FormFieldMapping: main() *)

\* what the user may type at "Enter Form ID: " (after strip)
FormIdInputs == {"", "F1", "F2", "F9"}

\* what the user may type on one line in Field ID mode
IdLines == {<<"f", "1">>, <<"f", "2">>, <<"f", "9">>}

\* what the user may type on one line in Field Name mode
NameLines == {<<"a", "1">>, <<"A", " ", "1">>, <<"1", "a">>, <<"a">>}

\* int(input(...)): text that is no number raises ValueError
NumberInputs(lo, hi) ==
    {[valid |-> FALSE, value |-> 0]} \cup {[valid |-> TRUE, value |-> v] : v \in lo..hi}

\* the locals of one iteration of main()'s loop are dead after "continue"
ResetLocals ==
    /\ form_id' = ""
    /\ num_fields' = 0
    /\ input_mode' = 0
    /\ field_inputs' = <<>>
    /\ resolved_fields' = <<>>
    /\ index' = 0
    /\ inserted' = "none"

\* "continue": back to the Form ID prompt
Continue(m) ==
    /\ pc' = "form"
    /\ msg' = m
    /\ ResetLocals

\* lines 239-250: the Form ID prompt and validate_form_exists
EnterFormId ==
    /\ UNCHANGED notMap
    /\ pc = "form"
    /\ \E f \in FormIdInputs, dberr \in BOOLEAN :
        /\ mapping' = IF f = "" \/ dberr THEN mapping ELSE ConnCommit(mapping, txn)
        /\ txn' = IF f = "" THEN txn ELSE <<>>
        /\ IF f = "" THEN Continue("form_empty")
           ELSE IF ~validate_form_exists(f, dberr) THEN Continue("form_missing")
           ELSE /\ pc' = "num"
                /\ msg' = "form_validated"
                /\ form_id' = f
                /\ UNCHANGED <<num_fields, input_mode, field_inputs, resolved_fields,
                               index, inserted>>

\* lines 253-260: the number-of-fields prompt
EnterNumFields ==
    /\ UNCHANGED notMap
    /\ pc = "num"
    /\ \E n \in NumberInputs(0, MaxFields) :
        IF ~n.valid THEN Continue("number_invalid")
        ELSE IF n.value <= 0 THEN Continue("number_not_positive")
        ELSE /\ pc' = "mode"
             /\ num_fields' = n.value
             /\ UNCHANGED <<form_id, input_mode, field_inputs, resolved_fields,
                            index, inserted, msg>>
    /\ UNCHANGED <<mapping, txn>>

\* lines 263-274: the input-mode prompt
EnterInputMode ==
    /\ UNCHANGED notMap
    /\ pc = "mode"
    /\ \E m \in NumberInputs(1, 3) :
        IF ~m.valid THEN Continue("number_invalid")
        ELSE IF m.value \notin {1, 2} THEN Continue("choice_invalid")
        ELSE /\ pc' = "fields"
             /\ input_mode' = m.value
             /\ UNCHANGED <<form_id, num_fields, field_inputs, resolved_fields,
                            index, inserted, msg>>
    /\ UNCHANGED <<mapping, txn>>

\* lines 277-297: get_bulk_input returns the stripped non-blank lines typed before
\* the first blank line, in the order typed; then the count is validated
ReadFields ==
    /\ UNCHANGED notMap
    /\ pc = "fields"
    /\ \E lines \in SeqsOf(IF input_mode = 1 THEN IdLines ELSE NameLines, 0, MaxFields) :
        IF Len(lines) # num_fields THEN Continue("count_mismatch")
        ELSE /\ pc' = "resolve"
             /\ field_inputs' = lines
             /\ resolved_fields' = <<>>
             /\ UNCHANGED <<form_id, num_fields, input_mode, index, inserted, msg>>
    /\ UNCHANGED <<mapping, txn>>

\* lines 303-316 and 324-333: what one input line resolves to.
\* all_fields is read only in Field Name mode.
FieldOf(mode, all_fields, line, lookupErr) ==
    IF mode = 1 THEN get_field_by_id(line, lookupErr)
    ELSE resolve_field_by_name(all_fields, line)

\* a round that goes on with the lines that did resolve
RoundOutcomePartial(not_fetched, unresolved_inputs, duplicate_mappings) ==
    IF not_fetched THEN "fields_not_fetched"
    ELSE IF duplicate_mappings # <<>> THEN "duplicate"
    ELSE "preview"

\* lines 320-322 and 335-349: what main() decides once every line is looked up
RoundOutcome(not_fetched, unresolved_inputs, duplicate_mappings) ==
    IF not_fetched THEN "fields_not_fetched"
    ELSE IF unresolved_inputs # <<>> THEN "unresolved"
    ELSE IF duplicate_mappings # <<>> THEN "duplicate"
    ELSE "preview"

\* lines 301-349: resolve every line, then refuse unresolved and duplicate input.
\* lookupErr, checkErr: the lines whose SELECT raises; fetchErr: get_all_fields raises
ResolveFields ==
    /\ UNCHANGED notMap
    /\ pc = "resolve"
    /\ \E lookupErr \in SUBSET (1..Len(field_inputs)),
          checkErr \in SUBSET (1..Len(field_inputs)),
          fetchErr \in BOOLEAN :
        LET n == Len(field_inputs)
            all_fields == IF input_mode = 1 THEN <<>> ELSE get_all_fields(fetchErr)
            field == [i \in 1..n |->
                        FieldOf(input_mode, all_fields, field_inputs[i], i \in lookupErr)]
            found == {i \in 1..n : field[i] # NoField}
            dup == {i \in found :
                        check_existing_mapping(mapping \o txn, form_id, field[i].id,
                                             i \in checkErr)}
            unresolved_inputs == FilterIdx(field_inputs, (1..n) \ found)
            duplicate_mappings == FilterIdx(field_inputs, dup)
            resolved == FilterIdx([i \in 1..n |->
                                      [id |-> field[i].id,
                                       field_name |-> field[i].field_name,
                                       input_name |-> field_inputs[i]]],
                                  found \ dup)
            outcome == RoundOutcome(input_mode = 2 /\ all_fields = <<>>,
                                    unresolved_inputs, duplicate_mappings)
        IN  /\ (input_mode = 1 => ~fetchErr)
            /\ (input_mode = 2 => lookupErr = {})
            /\ IF outcome # "preview" THEN Continue(outcome)
               ELSE /\ pc' = "confirm"
                    /\ resolved_fields' = resolved
                    /\ msg' = "preview"
                    /\ UNCHANGED <<form_id, num_fields, input_mode, field_inputs,
                                   index, inserted>>
    \* every SELECT ends with conn.commit() or conn.rollback()
    /\ mapping' = mapping
    /\ txn' = <<>>

\* lines 359-370: the confirmation prompt; "y" enters insert_mappings (line 147)
ConfirmMappings ==
    /\ UNCHANGED notMap
    /\ pc = "confirm"
    /\ \E answer \in {"y", "n"} :
        IF answer # "y"
        THEN /\ pc' = "retry"
             /\ msg' = "cancelled"
             /\ UNCHANGED index
        ELSE /\ pc' = "insert"
             /\ msg' = "inserting"
             /\ index' = 1
    /\ UNCHANGED <<form_id, num_fields, input_mode, field_inputs, resolved_fields,
                   inserted, mapping, txn>>

\* lines 363-367: "Do you want to try again?"
TryAgain ==
    /\ UNCHANGED notMap
    /\ pc = "retry"
    /\ \E answer \in {"y", "n"} :
        IF answer = "y" THEN Continue("cancelled")
        ELSE /\ pc' = "done"
             /\ msg' = "goodbye"
             /\ ResetLocals
    /\ UNCHANGED <<mapping, txn>>

\* numbering that does not advance
OrderIndexAlwaysOne(i) == 1

\* enumerate without start=1
OrderIndexFromZero(i) == i - 1

\* the order_index insert_mappings gives to the row of enumerate's index i
OrderIndexOf(i) == i

\* the row one INSERT of insert_mappings adds (lines 150-156)
MappingRow(f, field, i) ==
    [form_id |-> f, field_id |-> field.id, order_index |-> OrderIndexOf(i)]

\* an except branch that forgets conn.rollback()
InsertFailedKeepingRows ==
    /\ inserted' = "false"
    /\ msg' = "rolled_back"
    /\ pc' = "another"
    /\ UNCHANGED <<mapping, txn>>

\* lines 161-165: the except branch of insert_mappings, then back in main()
InsertFailed ==
    /\ txn' = <<>>
    /\ mapping' = mapping
    /\ inserted' = "false"
    /\ msg' = "rolled_back"
    /\ pc' = "another"

\* lines 149-156: one INSERT of the loop; it may raise, and it raises when the
\* table is full
InsertExecute ==
    /\ UNCHANGED notMap
    /\ pc = "insert"
    /\ index <= Len(resolved_fields)
    /\ \E ok \in BOOLEAN :
        IF ok /\ Len(mapping) + Len(txn) < MaxRows
        THEN /\ txn' = Append(txn, MappingRow(form_id, resolved_fields[index], index))
             /\ index' = index + 1
             /\ UNCHANGED <<pc, inserted, msg, mapping>>
        ELSE /\ InsertFailed
             /\ UNCHANGED index
    /\ UNCHANGED <<form_id, num_fields, input_mode, field_inputs, resolved_fields>>

\* lines 158-160 and 371-376: conn.commit() after the loop; it may raise
InsertCommit ==
    /\ UNCHANGED notMap
    /\ pc = "insert"
    /\ index > Len(resolved_fields)
    /\ \E ok \in BOOLEAN :
        IF ok
        THEN /\ mapping' = ConnCommit(mapping, txn)
             /\ txn' = <<>>
             /\ inserted' = "true"
             /\ msg' = "completed"
             /\ pc' = "another"
        ELSE InsertFailed
    /\ UNCHANGED <<form_id, num_fields, input_mode, field_inputs, resolved_fields,
                   index>>

\* lines 379-385: "Do you want to map another form?"
MapAnother ==
    /\ UNCHANGED notMap
    /\ pc = "another"
    /\ \E answer \in {"y", "n"} :
        IF answer = "y" THEN Continue("next_form")
        ELSE /\ pc' = "done"
             /\ msg' = "goodbye"
             /\ ResetLocals
    /\ UNCHANGED <<mapping, txn>>

\* lines 230-234: connected, nothing typed yet, the mapping table as found
InitMapVars ==
    /\ pc = "form"
    /\ form_id = ""
    /\ num_fields = 0
    /\ input_mode = 0
    /\ field_inputs = <<>>
    /\ resolved_fields = <<>>
    /\ index = 0
    /\ inserted = "none"
    /\ msg = "connected"
    /\ mapping = <<>>
    /\ txn = <<>>

\* the mapping wizard not running
IdleMapVars ==
    /\ pc = "idle"
    /\ form_id = ""
    /\ num_fields = 0
    /\ input_mode = 0
    /\ field_inputs = <<>>
    /\ resolved_fields = <<>>
    /\ index = 0
    /\ inserted = "none"
    /\ msg = "none"
    /\ mapping = <<>>
    /\ txn = <<>>

NextMap ==
    \/ EnterFormId
    \/ EnterNumFields
    \/ EnterInputMode
    \/ ReadFields
    \/ ResolveFields
    \/ ConfirmMappings
    \/ TryAgain
    \/ InsertExecute
    \/ InsertCommit
    \/ MapAnother

---------------------------------------------------------------------------
(* FormFieldMapping: properties *)

\* the rows insert_mappings is asked to add, without their order_index
RequestedPairs ==
    [i \in 1..Len(resolved_fields) |->
        [form_id |-> form_id, field_id |-> resolved_fields[i].id]]

PairsOf(rows) ==
    [i \in 1..Len(rows) |-> [form_id |-> rows[i].form_id, field_id |-> rows[i].field_id]]

\* C1: insert_mappings is all-or-nothing. While it runs the table does not change;
\* when it returns, either it returned True and the table is the old table followed
\* by one row per resolved field, in order, or it returned False and the table is the
\* old table; either way no row is left in an open transaction.
C1_AllOrNothing ==
    [][pc = "insert" =>
        IF pc' = "insert" THEN mapping' = mapping /\ inserted' = "none"
        ELSE /\ txn' = <<>>
             /\ \/ /\ inserted' = "true"
                   /\ Len(mapping') = Len(mapping) + Len(resolved_fields)
                   /\ SubSeq(mapping', 1, Len(mapping)) = mapping
                   /\ PairsOf(SubSeq(mapping', Len(mapping) + 1, Len(mapping')))
                        = RequestedPairs
                \/ /\ inserted' = "false"
                   /\ mapping' = mapping]_vars

\* C1 witness: insert_mappings returned False after at least one INSERT had succeeded
C1_Witness ==
    /\ pc = "another"
    /\ inserted = "false"
    /\ index >= 2
    /\ Len(resolved_fields) = 2

\* the field a typed line stands for
EnteredFieldId(mode, line) ==
    IF mode = 1 THEN line
    ELSE LET hit == {k \in 1..Len(FormFieldsTable) :
                        normalize_field_name(FormFieldsTable[k].field_name)
                            = normalize_field_name(line)}
         IN  FormFieldsTable[CHOOSE k \in hit : \A j \in hit : k <= j].id

\* C4: after a successful round with n typed lines, the last n rows of the table are
\* the fields of lines 1..n of this form, in input order, with order_index 1..n.
C4_OrderIndexFollowsInput ==
    (pc = "another" /\ inserted = "true") =>
        LET n == Len(field_inputs)
            base == Len(mapping) - n
        IN  /\ n = num_fields
            /\ base >= 0
            /\ \A i \in 1..n :
                /\ mapping[base + i].order_index = i
                /\ mapping[base + i].form_id = form_id
                /\ mapping[base + i].field_id = EnteredFieldId(input_mode, field_inputs[i])

\* C4 witness: a successful Field Name round of two lines naming two fields
C4_Witness ==
    /\ pc = "another"
    /\ inserted = "true"
    /\ input_mode = 2
    /\ Len(field_inputs) = 2
    /\ Len(mapping) = 2
    /\ mapping[1].field_id # mapping[2].field_id

\* no two rows of the table map the same field to the same form
NoDuplicatePairs(rows) ==
    \A i, j \in 1..Len(rows) :
        i # j => ~(rows[i].form_id = rows[j].form_id /\ rows[i].field_id = rows[j].field_id)

\* C5: the mapping table never holds two rows with the same (form_id, field_id).
C5_NoDuplicateMappings == NoDuplicatePairs(mapping)

\* a typed line that names no row of form_fields
Unresolvable(mode, line) ==
    IF mode = 1
    THEN \A k \in 1..Len(FormFieldsTable) : FormFieldsTable[k].id # line
    ELSE \A k \in 1..Len(FormFieldsTable) :
            normalize_field_name(FormFieldsTable[k].field_name) # normalize_field_name(line)

HasUnresolvable ==
    \E i \in 1..Len(field_inputs) : Unresolvable(input_mode, field_inputs[i])

\* C6: a round in which some typed line names no existing field goes back to the
\* Form ID prompt with nothing inserted, for the lines that did resolve included.
C6_NoPartialData ==
    [][(pc = "resolve" /\ HasUnresolvable) =>
        /\ pc' = "form"
        /\ mapping' = mapping
        /\ txn' = <<>>
        /\ resolved_fields' = <<>>]_vars

\* C6 witness: lines typed, one naming an existing field and one naming none
C6_Witness ==
    /\ pc = "resolve"
    /\ HasUnresolvable
    /\ \E i \in 1..Len(field_inputs) : ~Unresolvable(input_mode, field_inputs[i])

\* C9 as stated: in a table without duplicate pairs, no two rows of one form carry
\* the same order_index.
C9_OrderIndexUniquePerForm ==
    NoDuplicatePairs(mapping) =>
        \A i, j \in 1..Len(mapping) :
            (i # j /\ mapping[i].form_id = mapping[j].form_id)
                => mapping[i].order_index # mapping[j].order_index

\* C9 amended: the rows one round commits carry pairwise different order_index
\* values (the numbering restarts at 1 in every round).
C9_OrderIndexUniquePerRound ==
    [][\A i, j \in (Len(mapping) + 1)..Len(mapping') :
            i # j => mapping'[i].order_index # mapping'[j].order_index]_vars

\* C9 witness: a round has committed two rows
C9_Witness ==
    /\ pc = "another"
    /\ inserted = "true"
    /\ Len(resolved_fields) = 2
    /\ Len(mapping) >= 2

---------------------------------------------------------------------------
(* normalize_field_name on its own *)

\* every argument the function is tried on
NormInputs == SeqsOf(Alphabet, 0, MaxLen) \cup {None}

InitNormVars ==
    /\ norm_in \in NormInputs
    /\ norm_out = <<>>
    /\ norm_pc = "input"

IdleNormVars ==
    /\ norm_in = <<>>
    /\ norm_out = <<>>
    /\ norm_pc = "idle"

\* lines 18-29: the call
CallNormalize ==
    /\ UNCHANGED notNorm
    /\ norm_pc = "input"
    /\ norm_out' = normalize_field_name(norm_in)
    /\ norm_pc' = "done"
    /\ UNCHANGED norm_in

\* the characters the specification of normalize_field_name says are removed
RemovedChars == {"/", "-", "_", "(", ")", ".", ",", " ", "\t"}

\* s read left to right: removed characters dropped, the others kept in lower case
RECURSIVE KeptLowered(_)
KeptLowered(s) ==
    IF s = <<>> THEN <<>>
    ELSE (IF Head(s) \in RemovedChars THEN <<>>
          ELSE IF Head(s) = "A" THEN <<"a">> ELSE <<Head(s)>>)
         \o KeptLowered(Tail(s))

\* C8: normalize_field_name returns the input in lower case without the characters
\* / - _ ( ) . , and whitespace, every other character kept in order; "" for an
\* empty or None input; and normalizing the result again changes nothing.
C8_NormalizeRemovesExactly ==
    norm_pc = "done" =>
        /\ (norm_in = None \/ norm_in = <<>>) => norm_out = <<>>
        /\ norm_in # None => norm_out = KeptLowered(norm_in)
        /\ normalize_field_name(norm_out) = norm_out

\* C8 witness: an input with an upper-case letter, an underscore and whitespace
\* has been normalized
C8_Witness ==
    /\ norm_pc = "done"
    /\ norm_in = <<" ", "A", "_">>
    /\ norm_out = <<"a">>

---------------------------------------------------------------------------
(* category_manager: DatabaseConnection *)

\* parent_category_id = None (NULL): generated ids start at 1
NoParent == 0

\* len(templates) in generate_description
TemplateCount == 5

\* generate_description: the template chosen by the length of the cleaned name,
\* filled with the cleaned name. Names here are single words, so a description
\* has at most seven words and the ten-word cut leaves it whole.
generate_description(category_name) ==
    LET clean_name == Lower(Strip(category_name))
    IN  [template |-> Len(clean_name) % TemplateCount, clean_name |-> clean_name]

\* connect(): a connection that commits every statement by itself
AutocommitOn == TRUE

\* connect(), line 36: self.connection.autocommit = False
autocommit == FALSE

\* RETURNING id handed back last row first
ReturnedIdsReversed(rows) == [i \in 1..Len(rows) |-> rows[Len(rows) + 1 - i].id]

\* lines 94-98: the ids RETURNING id yields, one per inserted row, in row order
ReturnedIds(rows) == [i \in 1..Len(rows) |-> rows[i].id]

\* bulk_insert_categories: what the call returns and does.
\*   raised: psycopg2.Error was raised (after connection.rollback());
\*   rows: the rows the INSERT added; ids: the returned list;
\*   executed: the number of SQL statements sent.
\* categories: sequence of <<name, description>>; first_id: the id the table
\* generates next; dberr: the INSERT fails
bulk_insert_categories(categories, entity, parent_category_id, first_id, dberr) ==
    IF categories = <<>>
    THEN [raised |-> FALSE, rows |-> <<>>, ids |-> <<>>, executed |-> 0]
    ELSE IF dberr
    THEN [raised |-> TRUE, rows |-> <<>>, ids |-> <<>>, executed |-> 1]
    ELSE LET rows == [i \in 1..Len(categories) |->
                        [id |-> first_id + i - 1,
                         name |-> categories[i][1],
                         description |-> categories[i][2],
                         category_type |-> "OTHER",
                         visibility_scope |-> "PUBLIC",
                         entity_id |-> entity,
                         parent_category_id |-> parent_category_id]]
         IN  [raised |-> FALSE, rows |-> rows, ids |-> ReturnedIds(rows),
              executed |-> 1]

---------------------------------------------------------------------------
(* category_manager: main() *)

\* what the user may type at the Entity ID prompt: a UUID, or text UUID_PATTERN rejects
EntityIdInputs == {"e1", "not-a-uuid"}

\* texts UUID_PATTERN matches
UUID_PATTERN == {"e1"}

\* names the user may paste
CatNames == {<<"A">>, <<"a", "1">>}

\* collect_category_names_multiline: the names pasted, once their number matches
\* the count typed before, each with its generated description
CollectedCategories == 
    {[i \in 1..Len(names) |-> <<names[i], generate_description(names[i])>>] :
        names \in SeqsOf(CatNames, 1, MaxCount)}

\* lines 181-185 and 237-241: each entered name with the id at the same position
PairInserted(categories, ids) ==
    [i \in 1..Len(categories) |-> [id |-> ids[i], name |-> categories[i][1]]]

\* one line of the transcript
Event(kind, cat, yes, ids) == [kind |-> kind, cat |-> cat, yes |-> yes, ids |-> ids]

\* lines 156 and 188-195: the innermost loop moves to its next category; a loop
\* that has none left returns to its caller, whose loop moves on in turn
RECURSIVE Unwind(_)
Unwind(frames) ==
    IF frames = <<>> THEN <<>>
    ELSE LET top == Head(frames)
         IN  IF top.idx < Len(top.categories)
             THEN <<[top EXCEPT !.idx = @ + 1]>> \o Tail(frames)
             ELSE Unwind(Tail(frames))

\* a walk that finishes the caller's list first and visits the new
\* subcategories afterwards (breadth-first)
PushFrameLast(frames, frame) == Unwind(frames) \o <<frame>>

\* lines 188-193: the recursive call runs before the caller's loop goes on
PushFrame(frames, frame) == <<frame>> \o frames

\* the category the innermost loop is at
CurrentCat == Head(stack).categories[Head(stack).idx]

\* lines 215-216: get_valid_uuid asks until the text is a UUID
EnterEntityId ==
    /\ UNCHANGED notCat
    /\ cpc = "entity"
    /\ \E value \in EntityIdInputs :
        IF value \in UUID_PATTERN
        THEN /\ entity_id' = value
             /\ cpc' = "top"
        ELSE UNCHANGED <<entity_id, cpc>>
    /\ UNCHANGED <<stack, confirm, cat_table, cat_txn, cat_next_id, statements,
                   transcript>>

\* lines 229-253 and 173-193: one bulk insert of the wizard and what follows it.
\* categories: the collected <<name, description>> list; parent: the id they go
\* under; frames: the activations the new one is called from; log: the
\* transcript so far; dberr: the INSERT fails (it fails when the table is full)
InsertAndDescend(categories, parent, level, frames, log, dberr) ==
    LET full == Len(cat_table) + Len(cat_txn) + Len(categories) > MaxCats
        r == bulk_insert_categories(categories, entity_id, parent, cat_next_id,
                                  dberr \/ full)
    IN  /\ statements' = statements + r.executed
        /\ cat_next_id' = cat_next_id + Len(r.rows)
        /\ IF r.raised
           THEN /\ cpc' = "done"
                /\ cat_txn' = <<>>
                /\ stack' = <<>>
                /\ transcript' = Append(log, Event("error", parent, FALSE, <<>>))
                /\ UNCHANGED cat_table
           ELSE /\ cat_txn' = IF autocommit THEN cat_txn ELSE cat_txn \o r.rows
                /\ cat_table' = IF autocommit THEN cat_table \o r.rows ELSE cat_table
                /\ stack' = PushFrame(frames,
                                      [categories |-> PairInserted(categories, r.ids),
                                       idx |-> 1, level |-> level])
                /\ transcript' = Append(log, Event("insert", parent, TRUE, r.ids))
                /\ cpc' = "ask"

\* lines 223-253: the top-level categories are collected and inserted, and the
\* depth-first walk starts at the first of them
EnterTopCategories ==
    /\ UNCHANGED notCat
    /\ cpc = "top"
    /\ \E categories \in CollectedCategories, dberr \in BOOLEAN :
        InsertAndDescend(categories, NoParent, 1, <<>>, transcript, dberr)
    /\ UNCHANGED <<entity_id, confirm>>

\* lines 163-165 and 194-195: "Is subcategory available?" answered no
AnswerNo ==
    /\ UNCHANGED notCat
    /\ cpc = "ask"
    /\ transcript' = Append(transcript, Event("ask", CurrentCat.id, FALSE, <<>>))
    /\ stack' = Unwind(stack)
    /\ cpc' = IF stack' = <<>> THEN "commit" ELSE "ask"
    /\ UNCHANGED <<entity_id, confirm, cat_table, cat_txn, cat_next_id, statements>>

\* lines 163-193: answered yes: the subcategories are collected and inserted and
\* the walk goes down into them
AnswerYes ==
    /\ UNCHANGED notCat
    /\ cpc = "ask"
    /\ \E categories \in CollectedCategories, dberr \in BOOLEAN :
        InsertAndDescend(categories, CurrentCat.id, Head(stack).level + 1, stack,
                         Append(transcript, Event("ask", CurrentCat.id, TRUE, <<>>)),
                         dberr)
    /\ UNCHANGED <<entity_id, confirm>>

\* lines 257-264 and 270-275: "Commit all changes to database?"; commit() may raise
CommitPrompt ==
    /\ UNCHANGED notCat
    /\ cpc = "commit"
    /\ \E answer \in {"yes", "no"}, ok \in BOOLEAN :
        /\ confirm' = answer
        /\ IF answer = "yes" /\ ok
           THEN /\ cat_table' = ConnCommit(cat_table, cat_txn)
                /\ transcript' = Append(transcript,
                                        Event("committed", NoParent, TRUE, <<>>))
           ELSE /\ cat_table' = cat_table
                /\ transcript' = Append(transcript,
                                        Event("rolled_back", NoParent, FALSE, <<>>))
    /\ cat_txn' = <<>>
    /\ cpc' = "done"
    /\ UNCHANGED <<entity_id, stack, cat_next_id, statements>>

\* lines 266-268 and 274-275: Ctrl-C at a prompt
KeyboardInterrupt ==
    /\ UNCHANGED notCat
    /\ cpc \in {"entity", "top", "ask", "commit"}
    /\ cpc' = "done"
    /\ cat_txn' = <<>>
    /\ stack' = <<>>
    /\ transcript' = Append(transcript, Event("cancelled", NoParent, FALSE, <<>>))
    /\ UNCHANGED <<entity_id, confirm, cat_table, cat_next_id, statements>>

\* lines 206-210: connected, the category table as found
InitCatVars ==
    /\ cpc = "entity"
    /\ entity_id = ""
    /\ stack = <<>>
    /\ confirm = "none"
    /\ cat_table = <<>>
    /\ cat_txn = <<>>
    /\ cat_next_id = 1
    /\ statements = 0
    /\ transcript = <<>>

NextCat ==
    \/ EnterEntityId
    \/ EnterTopCategories
    \/ AnswerNo
    \/ AnswerYes
    \/ CommitPrompt
    \/ KeyboardInterrupt

---------------------------------------------------------------------------
(* category_manager: properties *)

\* the positions of the transcript's events of one kind
EventsOf(kind) == {p \in 1..Len(transcript) : transcript[p].kind = kind}

\* every id a bulk insert of this run reported
InsertedIds == UNION {{transcript[p].ids[i] : i \in 1..Len(transcript[p].ids)} :
                        p \in EventsOf("insert")}

IdsOf(rows) == {rows[i].id : i \in 1..Len(rows)}

\* C2: the rows of a run become durable only by the final commit: until the user
\* has answered yes to "Commit all changes to database?" and the commit has gone
\* through, the category table is as the run found it; from then on it holds the
\* rows of every bulk insert of the run, top level and below; after any other
\* end of the run (answer no, error, Ctrl-C) nothing entered in the run persists.
C2_DurableOnlyOnFinalYes ==
    IF cpc = "done" /\ confirm = "yes" /\ EventsOf("committed") # {}
    THEN IdsOf(cat_table) = InsertedIds /\ Len(cat_table) = Cardinality(InsertedIds)
    ELSE cat_table = <<>>

\* C2 witness: categories were inserted at the top level and below, the user
\* answered no, and the table holds none of them
C2_Witness ==
    /\ cpc = "done"
    /\ confirm = "no"
    /\ Cardinality(EventsOf("insert")) >= 2
    /\ cat_table = <<>>

\* the position at which the prompt for category c was answered, 0 if it was not
AskPos(c) ==
    LET hit == {p \in EventsOf("ask") : transcript[p].cat = c}
    IN  IF hit = {} THEN 0 ELSE CHOOSE p \in hit : TRUE

\* the position of the insert that created category c
InsertPos(c) ==
    CHOOSE p \in EventsOf("insert") : \E i \in 1..Len(transcript[p].ids) :
                                            transcript[p].ids[i] = c

\* the category under which c was inserted (NoParent at the top level)
ParentOf(c) == transcript[InsertPos(c)].cat

\* d lies in the subtree below c
RECURSIVE IsBelow(_, _)
IsBelow(d, c) ==
    IF d = NoParent THEN FALSE
    ELSE ParentOf(d) = c \/ IsBelow(ParentOf(d), c)

\* C3: the walk is depth-first and in input order. For every two neighbours c, s
\* of one inserted list (s entered right after c): s is prompted only after c;
\* when c was answered yes its subcategories are inserted right after the answer;
\* and once s is prompted, every category below c has been inserted and prompted
\* before that prompt, and nothing is inserted below c afterwards.
C3_DepthFirst ==
    /\ \A p \in EventsOf("ask") :
        /\ \A q \in EventsOf("ask") : transcript[q].cat = transcript[p].cat => q = p
        /\ (transcript[p].yes /\ p < Len(transcript)) =>
                /\ transcript[p + 1].kind \in {"insert", "error"}
                /\ transcript[p + 1].kind = "insert" =>
                        transcript[p + 1].cat = transcript[p].cat
    /\ \A p \in EventsOf("insert") :
        \A k \in 1..(Len(transcript[p].ids) - 1) :
            LET c == transcript[p].ids[k]
                s == transcript[p].ids[k + 1]
            IN  AskPos(s) # 0 =>
                    /\ AskPos(c) # 0
                    /\ AskPos(c) < AskPos(s)
                    /\ \A d \in InsertedIds :
                        IsBelow(d, c) =>
                            /\ InsertPos(d) < AskPos(s)
                            /\ AskPos(d) # 0
                            /\ AskPos(c) < AskPos(d)
                            /\ AskPos(d) < AskPos(s)

\* C3 witness: a category was answered yes, its subcategory was prompted, and then
\* the category's next sibling was prompted
C3_Witness ==
    \E p \in EventsOf("insert") :
        /\ Len(transcript[p].ids) >= 2
        /\ AskPos(transcript[p].ids[2]) # 0
        /\ AskPos(transcript[p].ids[1]) # 0
        /\ transcript[AskPos(transcript[p].ids[1])].yes
        /\ \E d \in InsertedIds : IsBelow(d, transcript[p].ids[1])

---------------------------------------------------------------------------
(* bulk_insert_categories on its own *)

\* every categories argument the function is tried on, the empty list included
BulkInputs ==
    {[i \in 1..Len(names) |-> <<names[i], generate_description(names[i])>>] :
        names \in SeqsOf(CatNames, 0, MaxCount)}

\* a connected DatabaseConnection with nothing inserted yet
InitBulkVars ==
    /\ bulk_in \in BulkInputs
    /\ bulk_parent \in {NoParent, 7}
    /\ bulk_ret = <<>>
    /\ bulk_pc = "input"
    /\ cpc = "idle"
    /\ entity_id \in UUID_PATTERN \cup {"e2"}
    /\ stack = <<>>
    /\ confirm = "none"
    /\ cat_table = <<>>
    /\ cat_txn = <<>>
    /\ cat_next_id \in {1, 3}
    /\ statements = 0
    /\ transcript = <<>>

\* lines 52-103: the call; the INSERT may raise
CallBulkInsert ==
    /\ UNCHANGED <<mapVars, normVars>>
    /\ bulk_pc = "input"
    /\ \E dberr \in BOOLEAN :
        LET r == bulk_insert_categories(bulk_in, entity_id, bulk_parent, cat_next_id,
                                      dberr)
        IN  /\ statements' = statements + r.executed
            /\ cat_next_id' = cat_next_id + Len(r.rows)
            /\ cat_txn' = IF r.raised THEN <<>> ELSE cat_txn \o r.rows
            /\ bulk_ret' = r.ids
            /\ bulk_pc' = IF r.raised THEN "raised" ELSE "done"
    /\ UNCHANGED <<bulk_in, bulk_parent, cpc, entity_id, stack, confirm, cat_table,
                   transcript>>

\* the rows of the open transaction with a given id
RowsWithId(id) == {i \in 1..Len(cat_txn) : cat_txn[i].id = id}

\* C7: bulk_insert_categories returns one id per input pair, in input order: the
\* i-th returned id is the id of the row inserted for the i-th pair, and of no
\* other row, so pairing names and ids by position gives each name the id of its
\* own row; for an empty list it returns [] without executing a statement.
C7_IdsInInputOrder ==
    bulk_pc = "done" =>
        /\ Len(bulk_ret) = Len(bulk_in)
        /\ Len(cat_txn) = Len(bulk_in)
        /\ \A i \in 1..Len(bulk_in) :
            /\ RowsWithId(bulk_ret[i]) = {i}
            /\ cat_txn[i].name = bulk_in[i][1]
            /\ cat_txn[i].description = bulk_in[i][2]
            /\ cat_txn[i].parent_category_id = bulk_parent
            /\ \A k \in RowsWithId(PairInserted(bulk_in, bulk_ret)[i].id) :
                    cat_txn[k].name = PairInserted(bulk_in, bulk_ret)[i].name
        /\ bulk_in = <<>> => (bulk_ret = <<>> /\ statements = 0)
        /\ bulk_in # <<>> => statements = 1

\* C7 witness: two categories with different names were inserted in one call
C7_Witness ==
    /\ bulk_pc = "done"
    /\ Len(bulk_in) = 2
    /\ bulk_in[1][1] # bulk_in[2][1]
    /\ Len(bulk_ret) = 2

IdleCatVars ==
    /\ cpc = "idle"
    /\ entity_id = ""
    /\ stack = <<>>
    /\ confirm = "none"
    /\ cat_table = <<>>
    /\ cat_txn = <<>>
    /\ cat_next_id = 1
    /\ statements = 0
    /\ transcript = <<>>

IdleBulkVars ==
    /\ bulk_in = <<>>
    /\ bulk_parent = 0
    /\ bulk_ret = <<>>
    /\ bulk_pc = "idle"

---------------------------------------------------------------------------
(* Specifications *)

InitMap == InitMapVars /\ IdleNormVars /\ IdleCatVars /\ IdleBulkVars

SpecMap == InitMap /\ [][NextMap]_vars

InitNorm == InitNormVars /\ IdleCatVars /\ IdleBulkVars /\ IdleMapVars

NextNorm == CallNormalize

SpecNorm == InitNorm /\ [][NextNorm]_vars

InitCat == InitCatVars /\ IdleMapVars /\ IdleNormVars /\ IdleBulkVars

SpecCat == InitCat /\ [][NextCat]_vars

InitBulk == InitBulkVars /\ IdleMapVars /\ IdleNormVars

NextBulk == CallBulkInsert

SpecBulk == InitBulk /\ [][NextBulk]_vars

====
